---- MODULE Spec2Model ----
(***************************************************************************)
(* hypridle-manager: a resident daemon that probes the host power state,   *)
(* and on every change of the probed state renders hypridle.conf, writes   *)
(* it and restarts hypridle.  Modelled from src/hypridle-manager.py.       *)
(*                                                                         *)
(* The process has two threads: the main thread (main) and the daemon      *)
(* thread running monitor_power_events.  Every statement of                *)
(* handle_power_change that touches shared state or the outside world is   *)
(* one step, so that interleavings of the two threads and of the           *)
(* environment (battery, udev events, signals) are explored.               *)
(***************************************************************************)
EXTENDS Integers, Sequences, FiniteSets, TLC

(***************************************************************************)
(* Bounds of the model.                                                    *)
(***************************************************************************)
\* udev events that can wait in the monitor's netlink socket at one time
MaxQueue == 1

\* the largest charge percentage and low-battery threshold probed
MaxPercent == 100

\* the longest value of a lid_switch command, in characters
MaxCommandLen == 3

(***************************************************************************)
(* Power states and battery readings.                                      *)
(***************************************************************************)
PowerStates == {"on_ac", "on_battery", "low_battery"}

\* current_power_state[0] before the first transition (Python None)
None == "None"

\* psutil.sensors_battery() returning None
NoBattery == [present |-> FALSE, power_plugged |-> FALSE, percent |-> 0]

Reading(plugged, pct) == [present |-> TRUE, power_plugged |-> plugged, percent |-> pct]

\* the readings the environment of the daemon moves between
BatteryReadings ==
    {NoBattery, Reading(TRUE, 80), Reading(FALSE, 80), Reading(FALSE, 20)}

(***************************************************************************)
(* configparser accessors.  A configuration maps section names to sections *)
(* and a section maps option names to values; a missing section or option  *)
(* is a name outside the DOMAIN.                                           *)
(***************************************************************************)
HasOption(config, section, option) ==
    /\ section \in DOMAIN config
    /\ option \in DOMAIN config[section]

\* config.get / getint / getboolean with fallback=
GetFallback(config, section, option, fallback) ==
    IF HasOption(config, section, option) THEN config[section][option] ELSE fallback

(***************************************************************************)
(* get_power_status                                                        *)
(***************************************************************************)
\* a strict comparison: a charge equal to the threshold is not yet low
get_power_status_strict(battery_, config) ==
    IF ~battery_.present THEN "on_ac"
    ELSE IF battery_.power_plugged THEN "on_ac"
    ELSE IF battery_.percent < GetFallback(config, "general", "low_battery_percentage", 20)
         THEN "low_battery"
    ELSE "on_battery"

get_power_status(battery_, config) ==
    IF ~battery_.present THEN "on_ac"
    ELSE IF battery_.power_plugged THEN "on_ac"
    ELSE IF battery_.percent <= GetFallback(config, "general", "low_battery_percentage", 20)
         THEN "low_battery"
    ELSE "on_battery"

(***************************************************************************)
(* generate_hypridle_config.  The text is modelled as the sequence of its  *)
(* blocks; a block is a record of the values interpolated into it.  A      *)
(* config.get without fallback on a missing option raises NoOptionError:   *)
(* the part then reports err and the whole render raises.                  *)
(***************************************************************************)
NoResume == ""

lock_command(config) == GetFallback(config, "general", "lock_command", "hyprlock")

\* the DPMS-on command always taken from the on_ac section
dpms_on_command_of_ac(power_state, config) ==
    GetFallback(config, "on_ac", "dpms_on_command", "hyprctl dispatch dpms on")

dpms_on_command(power_state, config) ==
    GetFallback(config, power_state, "dpms_on_command", "hyprctl dispatch dpms on")

GeneralBlock(power_state, config) ==
    [kind |-> "general",
     lock_cmd |-> <<"pidof", lock_command(config), "||", lock_command(config)>>,
     before_sleep_cmd |-> "loginctl lock-session",
     after_sleep_cmd |-> dpms_on_command(power_state, config)]

Listener(timeout, on_timeout, on_resume) ==
    [kind |-> "listener", timeout |-> timeout, on_timeout |-> on_timeout,
     on_resume |-> on_resume]

Emit(blocks) == [err |-> FALSE, blocks |-> blocks]
NoOptionError == [err |-> TRUE, blocks |-> <<>>]

\* a dim listener without its command left out instead of raising
DimPartOmitting(power_state, config) ==
    LET dim_timeout == GetFallback(config, power_state, "dim_timeout", 0) IN
    IF dim_timeout > 0 /\ HasOption(config, power_state, "dim_command")
    THEN Emit(<<Listener(dim_timeout, config[power_state]["dim_command"],
                GetFallback(config, power_state, "dim_resume_command", NoResume))>>)
    ELSE Emit(<<>>)

DimPart(power_state, config) ==
    LET dim_timeout == GetFallback(config, power_state, "dim_timeout", 0) IN
    IF dim_timeout > 0
    THEN IF ~HasOption(config, power_state, "dim_command") THEN NoOptionError
         ELSE Emit(<<Listener(dim_timeout, config[power_state]["dim_command"],
                     GetFallback(config, power_state, "dim_resume_command", NoResume))>>)
    ELSE Emit(<<>>)

\* the lock listener nested under the dim listener's condition
LockPartUnderDim(power_state, config) ==
    LET lock_timeout == GetFallback(config, power_state, "lock_timeout", 0) IN
    IF lock_timeout > 0 /\ GetFallback(config, power_state, "dim_timeout", 0) > 0
    THEN Emit(<<Listener(lock_timeout, lock_command(config), NoResume)>>)
    ELSE Emit(<<>>)

LockPart(power_state, config) ==
    LET lock_timeout == GetFallback(config, power_state, "lock_timeout", 0) IN
    IF lock_timeout > 0
    THEN Emit(<<Listener(lock_timeout, lock_command(config), NoResume)>>)
    ELSE Emit(<<>>)

DpmsOffPart(power_state, config) ==
    LET dpms_off_timeout == GetFallback(config, power_state, "dpms_off_timeout", 0) IN
    IF dpms_off_timeout > 0
    THEN IF ~HasOption(config, power_state, "dpms_off_command") THEN NoOptionError
         ELSE Emit(<<Listener(dpms_off_timeout, config[power_state]["dpms_off_command"],
                     dpms_on_command(power_state, config))>>)
    ELSE Emit(<<>>)

SuspendPart(power_state, config) ==
    LET suspend_timeout == GetFallback(config, power_state, "suspend_timeout", 0) IN
    IF suspend_timeout > 0
    THEN IF ~HasOption(config, power_state, "suspend_command") THEN NoOptionError
         ELSE Emit(<<Listener(suspend_timeout, config[power_state]["suspend_command"],
                     NoResume)>>)
    ELSE Emit(<<>>)

\* [ok, text]: ok = FALSE when a config.get raised
generate_hypridle_config(power_state, config) ==
    LET dim == DimPart(power_state, config)
        lock == LockPart(power_state, config)
        dpms == DpmsOffPart(power_state, config)
        susp == SuspendPart(power_state, config)
    IN IF dim.err \/ lock.err \/ dpms.err \/ susp.err
       THEN [ok |-> FALSE, text |-> <<>>]
       ELSE [ok |-> TRUE,
             text |-> <<GeneralBlock(power_state, config)>>
                      \o dim.blocks \o lock.blocks \o dpms.blocks \o susp.blocks]

(***************************************************************************)
(* The settings files the daemon is started with.                          *)
(***************************************************************************)
FullSection ==
    [dim_timeout |-> 30, dim_command |-> "brightnessctl set 10%",
     dim_resume_command |-> "brightnessctl -r",
     lock_timeout |-> 60,
     dpms_off_timeout |-> 90, dpms_off_command |-> "hyprctl dispatch dpms off",
     dpms_on_command |-> "hyprctl dispatch dpms on",
     suspend_timeout |-> 120, suspend_command |-> "systemctl suspend"]

\* a dim timeout without its dim_command
DimNoCommandSection == [dim_timeout |-> 30, lock_timeout |-> 60]

\* only the lock listener; the dim listener is switched off
LockOnlySection == [dim_timeout |-> 0, lock_timeout |-> 300]

GeneralSections ==
    {[systemd_mode |-> s, enable_notifications |-> n] : s, n \in BOOLEAN}

SectionLayouts ==
    {[on_ac |-> LockOnlySection, on_battery |-> FullSection, low_battery |-> FullSection],
     [on_ac |-> LockOnlySection, on_battery |-> DimNoCommandSection,
      low_battery |-> FullSection]}

WithGeneral(general, layout) ==
    [s \in {"general"} \cup DOMAIN layout |->
        IF s = "general" THEN general ELSE layout[s]]

SettingsFiles == {WithGeneral(g, l) : g \in GeneralSections, l \in SectionLayouts}

(***************************************************************************)
(* State.                                                                  *)
(***************************************************************************)
Threads == {"main", "monitor"}

\* the statements of handle_power_change and restart_hypridle
TickPcs == {"probe", "compare", "notify", "render", "write", "systemctl", "pkill", "launch"}

\* udev device actions; the monitor reacts to the first three
DeviceActions == {"change", "add", "remove", "bind"}

\* get_lid_command returning None
NoCommand == [none |-> TRUE, text |-> <<>>]

\* the lid handler before it has done anything
NoLid == [power_state |-> None, command |-> NoCommand, ran |-> <<>>]

NoFile == [exists |-> FALSE, text |-> <<>>]
FileWith(text) == [exists |-> TRUE, text |-> text]

VARIABLES
    process,                 \* "running", or how the daemon process ended
    pc,                      \* the statement each thread is at
    config_file,             \* the file at CONFIG_PATH: "missing", "invalid", "valid"
    config,                  \* the ConfigParser main loaded
    battery,                 \* what psutil.sensors_battery() reads now
    events,                  \* udev events waiting in the monitor's socket
    current_power_state,     \* current_power_state[0], shared by both threads
    new_power_state,         \* handle_power_change's local, per thread
    hypridle_config_content, \* handle_power_change's local, per thread
    hypridle_conf,           \* the file at hypridle_config_path
    hypridle,                \* the running hypridle instance and who started it
    tk,                      \* per thread, the record of its current or last tick
    lid                      \* hyprland-lid-manager: its locals and the commands it ran

vars == <<process, pc, config_file, config, battery, events, current_power_state,
          new_power_state, hypridle_config_content, hypridle_conf, hypridle, tk, lid>>

systemd_mode == GetFallback(config, "general", "systemd_mode", FALSE)
enable_notifications == GetFallback(config, "general", "enable_notifications", TRUE)

\* the record of a tick: what it saw when it began and what it has done since
NoTick ==
    [status |-> "idle", probed |-> None, last0 |-> None, conf0 |-> NoFile,
     hypridle0 |-> "none", differs |-> FALSE, notify |-> "none", written |-> 0,
     touched |-> FALSE, killed |-> 0, restarted |-> 0, restart |-> "none",
     error |-> "none", after_failure |-> FALSE]

\* after_failure: an earlier tick's "systemctl restart" exited non-zero
BeginTick ==
    [NoTick EXCEPT !.status = "running", !.last0 = current_power_state,
                   !.conf0 = hypridle_conf, !.hypridle0 = hypridle,
                   !.after_failure =
                       \E u \in Threads : tk[u].after_failure \/ tk[u].restart = "nonzero"]

InTick(t) == pc[t] \in TickPcs

\* current_power_state initialised to a power state instead of None
InitialPowerStateOnAC == "on_ac"

\* current_power_state: list[str | None] = [None]
InitialPowerState == None

Init ==
    /\ process = "running"
    /\ pc = [t \in Threads |-> IF t = "main" THEN "load_config" ELSE "unstarted"]
    /\ config_file \in {"missing", "invalid", "valid"}
    /\ config \in SettingsFiles
    /\ config_file # "valid" => config = CHOOSE c \in SettingsFiles : TRUE
    /\ battery \in BatteryReadings
    /\ events = <<>>
    /\ current_power_state = InitialPowerState
    /\ new_power_state = [t \in Threads |-> None]
    /\ hypridle_config_content = [t \in Threads |-> <<>>]
    /\ hypridle_conf = NoFile
    /\ hypridle \in {"none", "external"}
    /\ tk = [t \in Threads |-> NoTick]
    /\ lid = NoLid

(***************************************************************************)
(* How a thread leaves handle_power_change.  A return goes back to the     *)
(* caller: main goes on to start the monitor thread, the monitor thread    *)
(* polls again.  An exception nobody catches ends the main thread and with *)
(* it the process (status 1); in the monitor thread it ends that thread    *)
(* only, and main sleeps on.                                               *)
(***************************************************************************)
Caller(t) == IF t = "main" THEN "start_monitor" ELSE "poll"

\* what a tick record keeps once the tick is over: what it did, not what it saw
Closed(rec, status) ==
    [rec EXCEPT !.status = status, !.last0 = None, !.conf0 = NoFile, !.hypridle0 = "none"]

\* the locals of handle_power_change go with its frame
DropLocals(t) ==
    /\ new_power_state' = [new_power_state EXCEPT ![t] = None]
    /\ hypridle_config_content' = [hypridle_config_content EXCEPT ![t] = <<>>]

Return(t, rec, status) ==
    /\ pc' = [pc EXCEPT ![t] = Caller(t)]
    /\ tk' = [tk EXCEPT ![t] = Closed(rec, status)]
    /\ DropLocals(t)
    /\ UNCHANGED process

Raise(t, rec) ==
    /\ pc' = [pc EXCEPT ![t] = IF t = "main" THEN "crashed" ELSE "dead"]
    /\ process' = IF t = "main" THEN "exit1" ELSE process
    /\ tk' = [tk EXCEPT ![t] = Closed(rec, "raised")]
    /\ DropLocals(t)

Step(t, label, rec) ==
    /\ pc' = [pc EXCEPT ![t] = label]
    /\ tk' = [tk EXCEPT ![t] = rec]
    /\ UNCHANGED process

Goto(t, label, rec) ==
    /\ Step(t, label, rec)
    /\ UNCHANGED <<new_power_state, hypridle_config_content>>

(***************************************************************************)
(* main, up to the first handle_power_change.                              *)
(***************************************************************************)
\* only the is_file() test kept: a file that does not parse is loaded as it is
ConfigUsableIfPresent(file) == file # "missing"

\* CONFIG_PATH.is_file() holds and config.read raises no configparser.Error
ConfigUsable(file) == file = "valid"

\* CONFIG_PATH.is_file(), config.read: a missing or unparseable file is exit(1)
LoadConfig ==
    /\ process = "running"
    /\ pc["main"] = "load_config"
    /\ IF ConfigUsable(config_file)
       THEN /\ pc' = [pc EXCEPT !["main"] = IF systemd_mode THEN "check_service" ELSE "probe"]
            /\ UNCHANGED process
       ELSE /\ pc' = [pc EXCEPT !["main"] = "exited"]
            /\ process' = "exit1"
    /\ UNCHANGED <<lid, config_file, config, battery, events, current_power_state,
                   new_power_state, hypridle_config_content, hypridle_conf, hypridle, tk>>

\* check_and_enable_hypridle_service: "systemctl is-enabled" (no check=), then
\* "systemctl enable --now" when the unit is not enabled.  CalledProcessError is
\* caught; an OSError from spawning systemctl is not.
CheckService ==
    /\ process = "running"
    /\ pc["main"] = "check_service"
    /\ \E outcome \in {"enabled", "enabled_now", "enable_failed", "oserror"} :
        /\ pc' = [pc EXCEPT !["main"] = IF outcome = "oserror" THEN "crashed" ELSE "probe"]
        /\ process' = IF outcome = "oserror" THEN "exit1" ELSE process
        /\ hypridle' = IF outcome = "enabled_now" THEN "service" ELSE hypridle
    /\ UNCHANGED <<lid, config_file, config, battery, events, current_power_state,
                   new_power_state, hypridle_config_content, hypridle_conf, tk>>

(***************************************************************************)
(* handle_power_change, statement by statement, run by thread t.           *)
(***************************************************************************)
\* new_power_state = get_power_status(config); reading the sensor may raise
Probe(t) ==
    /\ process = "running"
    /\ pc[t] = "probe"
    /\ \E read \in {"ok", "error"} :
        IF read = "ok"
        THEN /\ new_power_state' =
                    [new_power_state EXCEPT ![t] = get_power_status(battery, config)]
             /\ UNCHANGED hypridle_config_content
             /\ Step(t, "compare",
                     [BeginTick EXCEPT !.probed = get_power_status(battery, config)])
        ELSE Raise(t, [BeginTick EXCEPT !.error = "probe"])
    /\ UNCHANGED <<lid, config_file, config, battery, events, current_power_state,
                   hypridle_conf, hypridle>>

\* the comparison dropped: every tick takes the transition branch
AlwaysChanged(new, last) == TRUE

\* the configuration re-applied on every tick that finds the host on battery
ChangedOrOnBattery(new, last) == new # last \/ new = "on_battery"

\* if new_power_state != current_power_state[0]:
Changed(new, last) == new # last

\* the comparison, and current_power_state[0] = new_power_state
Compare(t) ==
    /\ process = "running"
    /\ pc[t] = "compare"
    /\ LET differs == new_power_state[t] # current_power_state IN
       IF Changed(new_power_state[t], current_power_state)
       THEN /\ current_power_state' = new_power_state[t]
            /\ Goto(t, IF enable_notifications THEN "notify" ELSE "render",
                    [tk[t] EXCEPT !.differs = differs])
       ELSE /\ Return(t, [tk[t] EXCEPT !.differs = differs], "noop")
            /\ UNCHANGED current_power_state
    /\ UNCHANGED <<lid, config_file, config, battery, events, hypridle_conf, hypridle>>

\* send_notification catches CalledProcessError (notify-send exits non-zero);
\* subprocess.run raises an OSError when notify-send cannot be executed
NotifyRaises(outcome) == outcome = "oserror"

Notify(t) ==
    /\ process = "running"
    /\ pc[t] = "notify"
    /\ \E outcome \in {"ok", "nonzero", "oserror"} :
        LET rec == [tk[t] EXCEPT !.notify = IF outcome = "ok" THEN "delivered" ELSE "failed"]
        IN IF NotifyRaises(outcome)
           THEN Raise(t, [rec EXCEPT !.error = "notify"])
           ELSE Goto(t, "render", rec)
    /\ UNCHANGED <<lid, config_file, config, battery, events, current_power_state,
                   hypridle_conf, hypridle>>

\* a render error swallowed: the write and the restart follow regardless
RenderAlwaysContinues(ok) == TRUE

\* whether handle_power_change goes on to the write after the render
RenderContinues(ok) == ok

\* hypridle_config_content = generate_hypridle_config(current_power_state[0], config)
Render(t) ==
    /\ process = "running"
    /\ pc[t] = "render"
    /\ LET r == generate_hypridle_config(current_power_state, config)
           rec == IF r.ok THEN tk[t] ELSE [tk[t] EXCEPT !.error = "render"]
       IN IF RenderContinues(r.ok)
          THEN /\ hypridle_config_content' =
                      [hypridle_config_content EXCEPT ![t] = r.text]
               /\ UNCHANGED new_power_state
               /\ Step(t, "write", rec)
          ELSE Raise(t, rec)
    /\ UNCHANGED <<lid, config_file, config, battery, events, current_power_state,
                   hypridle_conf, hypridle>>

\* a write error swallowed: restart_hypridle follows regardless
WriteAlwaysContinues(outcome) == TRUE

\* whether handle_power_change goes on to restart_hypridle after the write
WriteContinues(outcome) == outcome = "ok"

\* with open(hypridle_config_path, "w") as f: f.write(hypridle_config_content)
\* open may fail (the file is left as it was); the write may fail after open
\* truncated the file
Write(t) ==
    /\ process = "running"
    /\ pc[t] = "write"
    /\ \E outcome \in {"ok", "open_error", "write_error"} :
        LET rec == [tk[t] EXCEPT
                      !.written = IF outcome = "ok" THEN @ + 1 ELSE @,
                      !.touched = @ \/ outcome # "open_error",
                      !.error = IF outcome = "ok" THEN @ ELSE "write"]
        IN /\ hypridle_conf' =
                 CASE outcome = "ok" -> FileWith(hypridle_config_content[t])
                   [] outcome = "open_error" -> hypridle_conf
                   [] outcome = "write_error" -> FileWith(<<>>)
           /\ IF WriteContinues(outcome)
              THEN Goto(t, IF systemd_mode THEN "systemctl" ELSE "pkill", rec)
              ELSE Raise(t, rec)
    /\ UNCHANGED <<lid, config_file, config, battery, events, current_power_state,
                   hypridle>>

(***************************************************************************)
(* restart_hypridle                                                        *)
(***************************************************************************)
\* systemd mode catches CalledProcessError (systemctl exits non-zero) and
\* prints; an OSError from spawning systemctl is not caught
SystemctlRaises(outcome) == outcome = "oserror"

\* subprocess.run(["systemctl", "--user", "restart", "hypridle.service"], check=True)
Systemctl(t) ==
    /\ process = "running"
    /\ pc[t] = "systemctl"
    /\ \E outcome \in {"ok", "nonzero", "oserror"} :
        LET rec == [tk[t] EXCEPT
                      !.restarted = IF outcome = "oserror" THEN @ ELSE @ + 1,
                      !.restart = outcome,
                      !.error = IF outcome = "oserror" THEN "systemctl" ELSE @]
        IN /\ \/ outcome = "ok" /\ hypridle' = "service"
              \/ outcome = "nonzero" /\ hypridle' \in {hypridle, "none"}
              \/ outcome = "oserror" /\ hypridle' = hypridle
           /\ IF SystemctlRaises(outcome)
              THEN Raise(t, rec)
              ELSE Return(t, rec, "done")
    /\ UNCHANGED <<lid, config_file, config, battery, events, current_power_state,
                   hypridle_conf>>

\* with contextlib.suppress(CalledProcessError): subprocess.run(["pkill", "hypridle"],
\* check=True).  pkill exits 0 when it signalled a process and 1 when none matched.
Pkill(t) ==
    /\ process = "running"
    /\ pc[t] = "pkill"
    /\ \E outcome \in {"ran", "oserror"} :
        IF outcome = "ran"
        THEN /\ hypridle' = "none"
             /\ Goto(t, "launch",
                     [tk[t] EXCEPT !.killed = IF hypridle # "none" THEN @ + 1 ELSE @])
        ELSE /\ Raise(t, [tk[t] EXCEPT !.error = "pkill"])
             /\ UNCHANGED hypridle
    /\ UNCHANGED <<lid, config_file, config, battery, events, current_power_state,
                   hypridle_conf>>

\* time.sleep(1); subprocess.Popen(["hypridle"], start_new_session=True)
Launch(t) ==
    /\ process = "running"
    /\ pc[t] = "launch"
    /\ \E outcome \in {"ok", "oserror"} :
        IF outcome = "ok"
        THEN /\ hypridle' = "daemon"
             /\ Return(t, [tk[t] EXCEPT !.restarted = @ + 1, !.restart = "ok"], "done")
        ELSE /\ Raise(t, [tk[t] EXCEPT !.restart = "oserror", !.error = "launch"])
             /\ UNCHANGED hypridle
    /\ UNCHANGED <<lid, config_file, config, battery, events, current_power_state,
                   hypridle_conf>>

(***************************************************************************)
(* main after the first handle_power_change, and monitor_power_events.     *)
(***************************************************************************)
\* the monitor thread started before the first handle_power_change
MonitorStartsEarly(main_pc) == main_pc \in {"probe", "start_monitor"}

\* where main is when it starts the monitor thread
MonitorStartsAt(main_pc) == main_pc = "start_monitor"

\* monitor_thread.start(); main then sleeps in its loop
StartMonitor ==
    /\ process = "running"
    /\ pc["monitor"] = "unstarted"
    /\ MonitorStartsAt(pc["main"])
    /\ pc' = [pc EXCEPT !["monitor"] = "poll",
                        !["main"] = IF @ = "start_monitor" THEN "idle" ELSE @]
    /\ UNCHANGED <<process, lid, config_file, config, battery, events, current_power_state,
                   new_power_state, hypridle_config_content, hypridle_conf, hypridle, tk>>

\* if device.action in ['change', 'add', 'remove']:
Relevant(action) == action \in {"change", "add", "remove"}

\* for device in iter(monitor.poll, None): the next event of the socket
Poll ==
    /\ process = "running"
    /\ pc["monitor"] = "poll"
    /\ events # <<>>
    /\ events' = Tail(events)
    /\ pc' = [pc EXCEPT !["monitor"] = IF Relevant(Head(events)) THEN "debounce" ELSE "poll"]
    /\ UNCHANGED <<process, lid, config_file, config, battery, current_power_state,
                   new_power_state, hypridle_config_content, hypridle_conf, hypridle, tk>>

\* time.sleep(0.5), then the call of handle_power_change
Debounce ==
    /\ process = "running"
    /\ pc["monitor"] = "debounce"
    /\ pc' = [pc EXCEPT !["monitor"] = "probe"]
    /\ UNCHANGED <<process, lid, config_file, config, battery, events, current_power_state,
                   new_power_state, hypridle_config_content, hypridle_conf, hypridle, tk>>

(***************************************************************************)
(* The environment: the battery, the kernel's udev events, signals.        *)
(***************************************************************************)
PowerChange ==
    /\ process = "running"
    /\ \E b \in BatteryReadings \ {battery} : battery' = b
    /\ UNCHANGED <<process, pc, lid, config_file, config, events, current_power_state,
                   new_power_state, hypridle_config_content, hypridle_conf, hypridle, tk>>

\* an event reaches the monitor's socket once the monitor exists
UdevEvent ==
    /\ process = "running"
    /\ pc["monitor"] \notin {"unstarted", "dead"}
    /\ Len(events) < MaxQueue
    /\ \E a \in DeviceActions : events' = Append(events, a)
    /\ UNCHANGED <<process, pc, lid, config_file, config, battery, current_power_state,
                   new_power_state, hypridle_config_content, hypridle_conf, hypridle, tk>>

\* SIGINT raises KeyboardInterrupt in the main thread: inside the try of the
\* sleep loop it is sys.exit(0), anywhere before it is uncaught.  SIGTERM has
\* its default action.  Either way the daemon thread stops where it is and the
\* monitor's socket is closed with the process.
Signal ==
    /\ process = "running"
    /\ \E sig \in {"SIGINT", "SIGTERM"} :
        process' = IF sig = "SIGINT" /\ pc["main"] = "idle" THEN "exit0" ELSE "killed"
    /\ events' = <<>>
    /\ UNCHANGED <<pc, lid, config_file, config, battery, current_power_state,
                   new_power_state, hypridle_config_content, hypridle_conf, hypridle, tk>>

Next ==
    \/ LoadConfig
    \/ CheckService
    \/ \E t \in Threads : Probe(t)
    \/ \E t \in Threads : Compare(t)
    \/ \E t \in Threads : Notify(t)
    \/ \E t \in Threads : Render(t)
    \/ \E t \in Threads : Write(t)
    \/ \E t \in Threads : Systemctl(t)
    \/ \E t \in Threads : Pkill(t)
    \/ \E t \in Threads : Launch(t)
    \/ StartMonitor
    \/ Poll
    \/ Debounce
    \/ PowerChange
    \/ UdevEvent
    \/ Signal

Spec == Init /\ [][Next]_vars

(***************************************************************************)
(* Properties.                                                             *)
(***************************************************************************)
Ended(t) == tk[t].status \in {"noop", "done", "raised"}
Returned(t) == tk[t].status \in {"noop", "done"}
Aborted(t) == pc[t] \in {"crashed", "dead"}

\* C1 as stated: every tick whose probed state differs from last performs the
\* write + restart sequence exactly once, and every tick that probes the same
\* state as last performs it zero times.  (Checked on the ticks in which
\* neither the probe nor the notification raised.)
C1_Original ==
    \A t \in Threads :
        Ended(t) /\ tk[t].error \notin {"probe", "notify"} =>
            IF tk[t].differs
            THEN tk[t].written = 1 /\ tk[t].restarted = 1
            ELSE tk[t].written = 0 /\ tk[t].restarted = 0

\* C1 amended: a tick whose probed state differs from last performs the write
\* and the restart at most once each, and exactly once each when it returns
\* normally; a tick that probes the same state as last performs neither.
C1_Amended ==
    \A t \in Threads :
        /\ tk[t].written <= 1 /\ tk[t].restarted <= 1
        /\ tk[t].differs /\ Returned(t) => tk[t].written = 1 /\ tk[t].restarted = 1
        /\ ~tk[t].differs => tk[t].written = 0 /\ tk[t].restarted = 0
        /\ tk[t].status = "noop" => ~tk[t].differs

C1_Witness ==
    /\ tk["main"].status = "done"
    /\ tk["monitor"].status = "done"
    /\ tk["monitor"].differs
    /\ tk["monitor"].written = 1 /\ tk["monitor"].restarted = 1

C3_OneTickAtATime ==
    /\ ~(InTick("main") /\ InTick("monitor"))
    /\ Cardinality({t \in Threads : tk[t].status = "running"}) <= 1

C3_Witness ==
    /\ pc["monitor"] = "launch"
    /\ events # <<>>
    /\ tk["main"].status = "done"

\* C4: a tick whose probed state equals last returns at the comparison and
\* leaves last, the file and the consumer as they were when the tick began,
\* with no notification sent.
C4_NoopTick ==
    [][\A t \in Threads :
          pc[t] = "compare" /\ pc'[t] # "compare"
              /\ new_power_state[t] = current_power_state
          => /\ pc'[t] = Caller(t)
             /\ tk'[t].status = "noop"
             /\ current_power_state' = tk[t].last0
             /\ hypridle_conf' = tk[t].conf0
             /\ hypridle' = tk[t].hypridle0
             /\ tk'[t].notify = "none"
             /\ tk'[t].written = 0 /\ ~tk'[t].touched
             /\ tk'[t].killed = 0 /\ tk'[t].restarted = 0]_vars

C4_Witness ==
    /\ tk["monitor"].status = "noop"
    /\ tk["monitor"].probed = "on_battery"
    /\ current_power_state = "on_battery"
    /\ hypridle_conf.exists

\* C5: when the render raises because a positive timeout lacks its command,
\* the tick ends there: the file is as it was when the tick began and the
\* consumer was neither terminated nor restarted by the tick.
C5_RenderFailureAborts ==
    [][\A t \in Threads :
          pc[t] = "render" /\ pc'[t] # "render"
              /\ ~generate_hypridle_config(current_power_state, config).ok
          => /\ Aborted(t)'
             /\ tk'[t].status = "raised"
             /\ hypridle_conf' = tk[t].conf0
             /\ hypridle' = tk[t].hypridle0
             /\ tk'[t].written = 0 /\ ~tk'[t].touched
             /\ tk'[t].killed = 0 /\ tk'[t].restarted = 0]_vars

C5_Witness ==
    /\ tk["monitor"].status = "raised"
    /\ tk["monitor"].error = "render"
    /\ hypridle_conf = FileWith(generate_hypridle_config("on_ac", config).text)
    /\ hypridle = "daemon"

\* C6: when the write of the file fails, the exception leaves the tick and the
\* tick does not restart the consumer; restart_hypridle is entered only after
\* a successful write.
C6_WriteFailurePropagates ==
    [][\A t \in Threads :
          /\ pc[t] = "write" /\ pc'[t] # "write" /\ tk'[t].error = "write"
             => /\ Aborted(t)'
                /\ tk'[t].status = "raised"
                /\ t = "main" => process' = "exit1"
                /\ hypridle' = hypridle
                /\ tk'[t].killed = 0 /\ tk'[t].restarted = 0
          /\ pc'[t] \in {"systemctl", "pkill", "launch"} => tk'[t].written = 1]_vars

C6_Witness ==
    /\ tk["monitor"].status = "raised"
    /\ tk["monitor"].error = "write"
    /\ tk["monitor"].touched
    /\ hypridle_conf = FileWith(<<>>)

\* C7 as stated: a failing notification never aborts a transition: a tick whose
\* notification failed still goes on to write the file and restart the
\* consumer, and the failure does not end the daemon.
C7_NotifyFailureHarmless ==
    \A t \in Threads :
        tk[t].notify = "failed" =>
            /\ tk[t].error # "notify"
            /\ ~Aborted(t) \/ tk[t].error \in {"render", "write", "systemctl", "pkill", "launch"}

\* C8 as stated: the probe never fails its caller: a tick whose sensor read
\* raised goes on with on_ac as the probed state.
C8_ProbeNeverFails ==
    \A t \in Threads :
        /\ tk[t].error # "probe"
        /\ Ended(t) \/ pc[t] \in TickPcs \ {"probe"} => tk[t].probed \in PowerStates

\* C9 as stated: in systemd mode a failed restart request does not end the
\* tick abnormally or the process: the tick returns to its caller; and a later
\* tick that detects a change and returns has written the file and issued
\* the restart request again.
C9_RestartFailureNonFatal ==
    [][\A t \in Threads :
          /\ pc[t] = "systemctl" /\ pc'[t] # "systemctl" /\ tk'[t].restart # "ok"
             => /\ pc'[t] = Caller(t)
                /\ tk'[t].status = "done"
                /\ process' = "running"
          /\ tk'[t].after_failure /\ tk'[t].differs /\ Returned(t)'
             => tk'[t].written = 1 /\ tk'[t].restarted = 1]_vars

\* The part of C9 the code does meet: a "systemctl restart" that ran and
\* exited non-zero (CalledProcessError, caught and printed) leaves the tick
\* returning normally and the process running.
ReportedRestartFailureNonFatal ==
    [][\A t \in Threads :
          pc[t] = "systemctl" /\ pc'[t] # "systemctl" /\ tk'[t].restart = "nonzero"
          => /\ pc'[t] = Caller(t)
             /\ tk'[t].status = "done"
             /\ process' = "running"]_vars

\* C10 as stated: in unsupervised mode a failed launch of hypridle ends the
\* daemon process with a non-zero status, in the startup tick and in a
\* trigger-driven tick alike.
C10_LaunchFailureFatal ==
    \A t \in Threads :
        tk[t].error = "launch" => process = "exit1"

\* C11 as stated: the process exits with status 1 only because of a startup
\* error before the first tick or a failed restart in unsupervised mode;
\* no probe, notify, render, write or supervised restart failure of any tick
\* ends the process.
C11_ExitCauses ==
    process = "exit1" =>
        \/ config_file # "valid"
        \/ tk["main"].status = "idle"
        \/ ~systemd_mode /\ tk["main"].error \in {"pkill", "launch"}

\* the steps the daemon takes by itself, without the environment acting
DaemonStep ==
    \/ LoadConfig
    \/ CheckService
    \/ StartMonitor
    \/ Poll
    \/ Debounce
    \/ \E t \in Threads :
          \/ Probe(t) \/ Compare(t) \/ Notify(t) \/ Render(t) \/ Write(t)
          \/ Systemctl(t) \/ Pkill(t) \/ Launch(t)

\* C12 as stated: a timer calls handle_power_change independently of udev
\* events: while the daemon is up with its monitor waiting and the power
\* state differs from last, a tick is under way or the daemon can start one
\* by itself, with no event delivered.
C12_TimerTicks ==
    /\ process = "running"
    /\ pc["main"] = "idle"
    /\ pc["monitor"] = "poll"
    /\ get_power_status(battery, config) # current_power_state
    => ENABLED DaemonStep

\* C13 as stated: when the process ends while a tick is in flight, the tick's
\* write + restart sequence has run to completion: no thread is left between
\* the write and the end of the restart.  (Checked on the daemon's own
\* shutdown, sys.exit(0) on KeyboardInterrupt.)
C13_InFlightTickFinishes ==
    process = "exit0" =>
        \A t \in Threads : pc[t] \notin {"write", "systemctl", "pkill", "launch"}

\* C14 as stated: within a transitioning tick the steps come in the order set
\* last, render, write, restart, notify: a notification is sent only after
\* the tick has written the file and restarted the consumer.
C14_NotifyLast ==
    \A t \in Threads :
        /\ pc[t] \in {"notify", "render", "write", "systemctl", "pkill", "launch"}
           => current_power_state = new_power_state[t]
        /\ pc[t] \in {"systemctl", "pkill", "launch"} => tk[t].written = 1
        /\ tk[t].notify # "none" => tk[t].written = 1 /\ tk[t].restarted = 1

(***************************************************************************)
(* get_power_status over every reading and threshold: the daemon stands at *)
(* the probe of its startup tick, with any battery reading and any         *)
(* low_battery_percentage, configured or not.                              *)
(***************************************************************************)
Percents == 0..MaxPercent

AllReadings == {NoBattery} \cup {Reading(p, pct) : p \in BOOLEAN, pct \in Percents}

\* the general section with low_battery_percentage set
WithThreshold(general, threshold) ==
    [o \in DOMAIN general \cup {"low_battery_percentage"} |->
        IF o = "low_battery_percentage" THEN threshold ELSE general[o]]

ThresholdGeneral == [systemd_mode |-> FALSE, enable_notifications |-> TRUE]

ThresholdLayout ==
    [on_ac |-> LockOnlySection, on_battery |-> FullSection, low_battery |-> FullSection]

ThresholdFiles ==
    {WithGeneral(ThresholdGeneral, ThresholdLayout)}
    \cup {WithGeneral(WithThreshold(ThresholdGeneral, th), ThresholdLayout) : th \in Percents}

ProbeInit ==
    /\ process = "running"
    /\ pc = [t \in Threads |-> IF t = "main" THEN "probe" ELSE "unstarted"]
    /\ config_file = "valid"
    /\ config \in ThresholdFiles
    /\ battery \in AllReadings
    /\ events = <<>>
    /\ current_power_state = InitialPowerState
    /\ new_power_state = [t \in Threads |-> None]
    /\ hypridle_config_content = [t \in Threads |-> <<>>]
    /\ hypridle_conf = NoFile
    /\ hypridle = "none"
    /\ tk = [t \in Threads |-> NoTick]
    /\ lid = NoLid

ProbeNext == Probe("main")

ProbeSpec == ProbeInit /\ [][ProbeNext]_vars

\* C15: for every reading and threshold in 0..100 the probe gives on_ac with
\* no battery, on_ac when plugged whatever the charge, and otherwise
\* low_battery when percent <= threshold and on_battery when percent >
\* threshold, the threshold being 20 when low_battery_percentage is not set.
C15_ProbeTable ==
    pc["main"] = "compare" =>
        LET threshold ==
                IF "low_battery_percentage" \in DOMAIN config["general"]
                THEN config["general"]["low_battery_percentage"] ELSE 20
            probed == new_power_state["main"]
        IN /\ ~battery.present => probed = "on_ac"
           /\ battery.present /\ battery.power_plugged => probed = "on_ac"
           /\ battery.present /\ ~battery.power_plugged /\ battery.percent <= threshold
                => probed = "low_battery"
           /\ battery.present /\ ~battery.power_plugged /\ battery.percent > threshold
                => probed = "on_battery"

\* probed on battery with the charge exactly at the default threshold
C15_Witness ==
    /\ pc["main"] = "compare"
    /\ "low_battery_percentage" \notin DOMAIN config["general"]
    /\ battery = Reading(FALSE, 20)
    /\ new_power_state["main"] = "low_battery"

(***************************************************************************)
(* generate_hypridle_config over every shape of a state's section: the     *)
(* daemon stands at the render of its startup tick, for any power state,   *)
(* with every option of that state's section present or absent, the        *)
(* timeouts negative, zero or positive, and the other states' sections     *)
(* absent or filled in different ways.                                     *)
(***************************************************************************)
\* an option of a section: <<>> when the key is absent, <<v>> when it is v
Absent == <<>>

\* the section with the options that are present
MkSection(options) ==
    [o \in {k \in DOMAIN options : options[k] # Absent} |-> options[o][1]]

OwnSections ==
    {MkSection([dim_timeout |-> dt, dim_command |-> dc, dim_resume_command |-> dr,
                lock_timeout |-> lt,
                dpms_off_timeout |-> ot, dpms_off_command |-> oc, dpms_on_command |-> on,
                suspend_timeout |-> st, suspend_command |-> sc]) :
        dt \in {Absent, <<0>>, <<30>>},
        dc \in {Absent, <<"brightnessctl set 10%">>},
        dr \in {Absent, <<"">>, <<"brightnessctl -r">>},
        lt \in {Absent, <<-1>>, <<60>>},
        ot \in {Absent, <<0>>, <<90>>},
        oc \in {Absent, <<"hyprctl dispatch dpms off">>},
        on \in {Absent, <<"wlopm --on *">>},
        st \in {Absent, <<-1>>, <<120>>},
        sc \in {Absent, <<"systemctl suspend">>}}

\* the section of the rendered state: missing from the file, or any of the above
OwnChoices == {Absent} \cup {<<sec>> : sec \in OwnSections}

\* a section whose DPMS-on command is not the built-in one
BrightSection ==
    [dim_timeout |-> 45, dim_command |-> "brightnessctl set 30%",
     lock_timeout |-> 600,
     dpms_off_timeout |-> 900, dpms_off_command |-> "wlopm --off *",
     dpms_on_command |-> "wlopm --on * && brightnessctl -r"]

\* what the file holds for the states that are not rendered
OtherLayouts ==
    {[s \in PowerStates |-> Absent],
     [s \in PowerStates |-> <<FullSection>>],
     [s \in PowerStates |-> IF s = "low_battery" THEN <<DimNoCommandSection>>
                            ELSE <<BrightSection>>]}

RenderGenerals ==
    {[enable_notifications |-> TRUE],
     [enable_notifications |-> TRUE, lock_command |-> "swaylock"]}

\* the file with own as the section of power_state and layout for the others
MkConfig(general, power_state, own, layout) ==
    LET present == {s \in PowerStates :
                        IF s = power_state THEN own # Absent ELSE layout[s] # Absent}
    IN [s \in {"general"} \cup present |->
            IF s = "general" THEN general
            ELSE IF s = power_state THEN own[1] ELSE layout[s][1]]

RenderInit ==
    /\ process = "running"
    /\ pc = [t \in Threads |-> IF t = "main" THEN "render" ELSE "unstarted"]
    /\ config_file = "valid"
    /\ current_power_state \in PowerStates
    /\ config \in {MkConfig(g, current_power_state, own, l) :
                      g \in RenderGenerals, own \in OwnChoices, l \in OtherLayouts}
    /\ battery = NoBattery
    /\ events = <<>>
    /\ new_power_state = [t \in Threads |-> IF t = "main" THEN current_power_state ELSE None]
    /\ hypridle_config_content = [t \in Threads |-> <<>>]
    /\ hypridle_conf = NoFile
    /\ hypridle = "none"
    /\ tk = [t \in Threads |->
                IF t = "main"
                THEN [NoTick EXCEPT !.status = "running", !.probed = current_power_state,
                                    !.differs = TRUE]
                ELSE NoTick]
    /\ lid = NoLid

RenderNext == Render("main")

RenderSpec == RenderInit /\ [][RenderNext]_vars

\* the value of a timeout key in the rendered state's section, 0 when the
\* section or the key is missing
TimeoutOf(key) ==
    IF current_power_state \in DOMAIN config /\ key \in DOMAIN config[current_power_state]
    THEN config[current_power_state][key] ELSE 0

OwnKey(key) ==
    current_power_state \in DOMAIN config /\ key \in DOMAIN config[current_power_state]

\* the listeners in their fixed order: timeout key, and the key of the command
ListenerKeys ==
    <<[timeout |-> "dim_timeout", command |-> "dim_command"],
      [timeout |-> "lock_timeout", command |-> "lock_command"],
      [timeout |-> "dpms_off_timeout", command |-> "dpms_off_command"],
      [timeout |-> "suspend_timeout", command |-> "suspend_command"]>>

\* C16: in a successful render the listener blocks are exactly the listeners
\* (dim, lock, DPMS-off, suspend) whose timeout in the state's section is
\* positive, in that order, each with its own timeout and command; an absent
\* or non-positive timeout removes its own block only.
C16_ListenersArePositiveTimeouts ==
    pc["main"] = "write" =>
        LET text == hypridle_config_content["main"]
            expected == SelectSeq(ListenerKeys, LAMBDA l : TimeoutOf(l.timeout) > 0)
        IN /\ Len(text) = 1 + Len(expected)
           /\ text[1].kind = "general"
           /\ \A i \in 1..Len(expected) :
                /\ text[i + 1].kind = "listener"
                /\ text[i + 1].timeout = TimeoutOf(expected[i].timeout)
                /\ text[i + 1].on_timeout =
                      IF expected[i].command = "lock_command"
                      THEN IF "lock_command" \in DOMAIN config["general"]
                           THEN config["general"]["lock_command"] ELSE "hyprlock"
                      ELSE config[current_power_state][expected[i].command]

\* rendered with the dim and DPMS-off listeners off: lock and suspend only
C16_Witness ==
    /\ pc["main"] = "write"
    /\ TimeoutOf("dim_timeout") = 0
    /\ TimeoutOf("lock_timeout") = 60
    /\ TimeoutOf("dpms_off_timeout") = 0
    /\ TimeoutOf("suspend_timeout") = 120
    /\ Len(hypridle_config_content["main"]) = 3

\* a listener that needs a command of its own has a positive timeout and no command
MissingRequiredCommand ==
    \E i \in {1, 3, 4} :
        /\ TimeoutOf(ListenerKeys[i].timeout) > 0
        /\ ~OwnKey(ListenerKeys[i].command)

\* C17: the render fails, giving no text, whenever dim_timeout, dpms_off_timeout
\* or suspend_timeout is positive and its command key is missing; the block is
\* never left out silently.
C17_MissingCommandFails ==
    pc["main"] # "render" /\ MissingRequiredCommand =>
        /\ tk["main"].error = "render"
        /\ pc["main"] = "crashed"
        /\ hypridle_config_content["main"] = <<>>

\* the render raised for a DPMS-off listener without its command, the dim
\* listener being complete
C17_Witness ==
    /\ pc["main"] = "crashed"
    /\ tk["main"].error = "render"
    /\ TimeoutOf("dim_timeout") > 0 /\ OwnKey("dim_command")
    /\ TimeoutOf("dpms_off_timeout") > 0 /\ ~OwnKey("dpms_off_command")
    /\ ~(TimeoutOf("suspend_timeout") > 0)

\* the rendered state's section as a choice for MkConfig
OwnChoice ==
    IF current_power_state \in DOMAIN config
    THEN <<config[current_power_state]>> ELSE Absent

\* C18: the outcome of the render depends on the power state, the general
\* section and the state's own section only: whatever the other states'
\* sections hold, rendering the same state gives the same text, or fails alike.
C18_OtherSectionsIgnored ==
    pc["main"] # "render" =>
        \A l \in OtherLayouts :
            LET other == generate_hypridle_config(
                             current_power_state,
                             MkConfig(config["general"], current_power_state, OwnChoice, l))
            IN /\ other.ok <=> pc["main"] = "write"
               /\ other.ok => other.text = hypridle_config_content["main"]

\* rendered on battery with a DPMS-on command of its own while the other
\* sections set a different one
C18_Witness ==
    /\ pc["main"] = "write"
    /\ current_power_state = "on_battery"
    /\ OwnKey("dpms_on_command")
    /\ "on_ac" \in DOMAIN config
    /\ config["on_ac"] = BrightSection
    /\ TimeoutOf("dpms_off_timeout") > 0

\* C19: with the settings file missing or invalid the daemon exits with a
\* non-zero status before any tick: nothing is probed, no file is written,
\* hypridle is not restarted and the monitor thread is never started.
C19_StartupConfigErrorExits ==
    config_file # "valid" =>
        /\ pc["main"] \in {"load_config", "exited"}
        /\ pc["main"] = "exited" => process = "exit1"
        /\ process \in {"running", "exit1", "killed"}
        /\ pc["monitor"] = "unstarted"
        /\ \A t \in Threads : tk[t] = NoTick /\ new_power_state[t] = None
        /\ current_power_state = None
        /\ hypridle_conf = NoFile
        /\ hypridle \in {"none", "external"}

\* the daemon has exited on a settings file that does not parse
C19_Witness ==
    /\ config_file = "invalid"
    /\ pc["main"] = "exited"
    /\ process = "exit1"

\* C20 as stated: in unsupervised mode every restart carries out pkill, the
\* wait and then exactly one launch of hypridle: whatever comes of the pkill
\* step, the thread goes on to the launch with no instance left, and once
\* the launch is done exactly one instance, started by the daemon, runs.
C20_UnsupervisedRestart ==
    [][\A t \in Threads :
          /\ pc[t] = "pkill" /\ pc'[t] # "pkill"
             => pc'[t] = "launch" /\ hypridle' = "none" /\ tk'[t].restarted = 0
          /\ pc[t] = "launch" /\ pc'[t] # "launch" /\ tk'[t].restart = "ok"
             => hypridle' = "daemon" /\ tk'[t].restarted = 1]_vars

\* the restart as far as pkill can be run at all: a pkill that matched no
\* process is not an error, the launch follows and leaves one instance
RestartWhenPkillRuns ==
    [][\A t \in Threads :
          /\ pc[t] = "pkill" /\ pc'[t] # "pkill" /\ tk'[t].error # "pkill"
             => pc'[t] = "launch" /\ hypridle' = "none" /\ tk'[t].restarted = 0
          /\ pc[t] = "launch" /\ pc'[t] # "launch" /\ tk'[t].restart = "ok"
             => hypridle' = "daemon" /\ tk'[t].restarted = 1]_vars

\* C21 as stated: every power_supply event with action change, add or remove
\* results in exactly one tick, called after the debounce of that event, and
\* an event with another action in none: an event waiting in the socket has
\* a monitor thread to take it, taking it leads to the debounce exactly when
\* the action is relevant, and a tick of the monitor only starts from there.
C21_EventsTick ==
    [][/\ process = "running" /\ events # <<>> => pc["monitor"] # "dead"
       /\ process' = "running" /\ events # <<>> /\ events' = Tail(events)
          => pc'["monitor"] = IF Relevant(Head(events)) THEN "debounce" ELSE "poll"
       /\ pc'["monitor"] = "probe" /\ pc["monitor"] # "probe"
          => pc["monitor"] = "debounce"]_vars

\* the same for the events the monitor thread takes from the socket
TakenEventsTick ==
    [][/\ process' = "running" /\ events # <<>> /\ events' = Tail(events)
          => pc'["monitor"] = IF Relevant(Head(events)) THEN "debounce" ELSE "poll"
       /\ pc'["monitor"] = "probe" /\ pc["monitor"] # "probe"
          => pc["monitor"] = "debounce"]_vars

\* C24 as stated: whenever the daemon runs with no tick in flight and last
\* set, the file on disk is the render of last under the settings, also after
\* a tick that ended in a render, write or notify error.
C24_LastIsWritten ==
    /\ process = "running"
    /\ \A t \in Threads : ~InTick(t)
    /\ current_power_state # None
    => LET r == generate_hypridle_config(current_power_state, config)
       IN r.ok /\ hypridle_conf = FileWith(r.text)

\* C25 as stated: an error raised by a tick of the monitor thread does not
\* stop that thread: while the process runs it is polling, in its debounce
\* or in a tick, so that a later event still results in a tick.
C25_TriggerSurvivesTickError ==
    process = "running" /\ tk["monitor"].status = "raised"
    => pc["monitor"] \in {"poll", "debounce"} \cup TickPcs

(***************************************************************************)
(* The daemon in an environment where the power state never changes        *)
(* without an event: the battery reading changes together with a 'change'  *)
(* event reaching the monitor's socket.  Further events may arrive at any  *)
(* time, also while a tick is in flight.                                   *)
(***************************************************************************)
EventInit ==
    /\ Init
    /\ config_file = "valid"

\* the kernel reports the change of the power supply to the listening monitor
PowerChangeEvent ==
    /\ process = "running"
    /\ pc["monitor"] \notin {"unstarted", "dead"}
    /\ Len(events) < MaxQueue
    /\ \E b \in BatteryReadings \ {battery} : battery' = b
    /\ events' = Append(events, "change")
    /\ UNCHANGED <<process, pc, lid, config_file, config, current_power_state,
                   new_power_state, hypridle_config_content, hypridle_conf, hypridle, tk>>

EventNext ==
    \/ DaemonStep
    \/ PowerChangeEvent
    \/ UdevEvent

EventSpec == EventInit /\ [][EventNext]_vars

\* no event is waiting and no tick is pending or in flight
Quiescent ==
    /\ process = "running"
    /\ pc["main"] = "idle"
    /\ pc["monitor"] \in {"poll", "dead"}
    /\ events = <<>>

\* C22 as stated: once the events have stopped and every pending tick has
\* completed, the power state not having changed since the last event, last
\* is the actual power state and the file on disk is the render for it.
C22_QuiescentCaughtUp ==
    Quiescent =>
        LET actual == get_power_status(battery, config)
            r == generate_hypridle_config(actual, config)
        IN /\ current_power_state = actual
           /\ r.ok
           /\ hypridle_conf = FileWith(r.text)

\* the same as long as no tick of the monitor thread has raised
CaughtUpWithoutTickError ==
    Quiescent /\ pc["monitor"] = "poll" =>
        LET actual == get_power_status(battery, config)
            r == generate_hypridle_config(actual, config)
        IN /\ current_power_state = actual
           /\ r.ok
           /\ hypridle_conf = FileWith(r.text)

(***************************************************************************)
(* hyprland-lid-manager (src/hyprland-lid-manager.py): one run of the lid   *)
(* handler.  A command is a sequence of characters; "x" stands for any      *)
(* character that is neither white space nor a per-cent sign.  The handler  *)
(* probes with the same get_power_status as the daemon.                     *)
(***************************************************************************)
Chars == {"x", " ", "%"}

Strings == UNION {[1..n -> Chars] : n \in 0..MaxCommandLen}

\* str.strip()
RECURSIVE lstrip(_)
lstrip(str) == IF str # <<>> /\ Head(str) = " " THEN lstrip(Tail(str)) ELSE str

RECURSIVE rstrip(_)
rstrip(str) ==
    IF str # <<>> /\ str[Len(str)] = " " THEN rstrip(SubSeq(str, 1, Len(str) - 1)) ELSE str

strip(str) == lstrip(rstrip(str))

\* config.read keeps the values without white space around them
ParsedValues == {str \in Strings : strip(str) = str}

\* ConfigParser() interpolates the values it returns: "%%" gives "%", and a
\* "%" followed by anything else but "(" is an InterpolationSyntaxError
RECURSIVE interpolate(_)
interpolate(str) ==
    IF str = <<>> THEN [err |-> FALSE, text |-> <<>>]
    ELSE IF Head(str) # "%"
         THEN LET rest == interpolate(Tail(str))
              IN [err |-> rest.err, text |-> <<Head(str)>> \o rest.text]
    ELSE IF Len(str) >= 2 /\ str[2] = "%"
         THEN LET rest == interpolate(SubSeq(str, 3, Len(str)))
              IN [err |-> rest.err, text |-> <<"%">> \o rest.text]
    ELSE [err |-> TRUE, text |-> <<>>]

\* f'{power_state}_command'
CommandKey(power_state) ==
    CASE power_state = "on_ac" -> "on_ac_command"
      [] power_state = "on_battery" -> "on_battery_command"
      [] power_state = "low_battery" -> "low_battery_command"

\* [raised, command]: raised when config.get raised
get_lid_command(power_state, cfg) ==
    LET key == CommandKey(power_state)
        got == IF HasOption(cfg, "lid_switch", key)
               THEN interpolate(cfg["lid_switch"][key])
               ELSE [err |-> FALSE, text |-> <<>>]
    IN IF got.err THEN [raised |-> TRUE, command |-> NoCommand]
       ELSE [raised |-> FALSE,
             command |-> IF strip(got.text) # <<>>
                         THEN [none |-> FALSE, text |-> strip(got.text)]
                         ELSE NoCommand]

\* a lid_switch key: absent, or set to a value
CommandChoices == {Absent} \cup {<<v>> : v \in ParsedValues}

\* the lid_switch sections: one key takes every value, the others a few
LidSections ==
    {MkSection([on_ac_command |-> f["on_ac"], on_battery_command |-> f["on_battery"],
                low_battery_command |-> f["low_battery"]]) :
        f \in {g \in [PowerStates -> CommandChoices] :
                  Cardinality({st \in PowerStates : g[st] \notin {Absent, <<<<"x">>>>}}) <= 1}}

\* the settings files: without a lid_switch section, or with one of the above
LidFiles ==
    {[general |-> ThresholdGeneral]}
    \cup {[general |-> ThresholdGeneral, lid_switch |-> sec] : sec \in LidSections}

LidInit ==
    /\ process = "running"
    /\ pc = [t \in Threads |-> IF t = "main" THEN "lid_config" ELSE "unstarted"]
    /\ config_file \in {"missing", "invalid", "valid"}
    /\ config \in LidFiles
    /\ config_file # "valid" => config = [general |-> ThresholdGeneral]
    /\ battery \in BatteryReadings
    /\ events = <<>>
    /\ current_power_state = None
    /\ new_power_state = [t \in Threads |-> None]
    /\ hypridle_config_content = [t \in Threads |-> <<>>]
    /\ hypridle_conf = NoFile
    /\ hypridle = "none"
    /\ tk = [t \in Threads |-> NoTick]
    /\ lid = NoLid

\* what the handler leaves alone: everything of the daemon
LidFrame ==
    UNCHANGED <<config_file, config, battery, events, current_power_state,
                new_power_state, hypridle_config_content, hypridle_conf, hypridle, tk>>

\* an exception nobody catches: traceback, exit status 1
LidRaise ==
    /\ pc' = [pc EXCEPT !["main"] = "crashed"]
    /\ process' = "exit1"

\* CONFIG_PATH.is_file(), config.read
LidLoadConfig ==
    /\ process = "running"
    /\ pc["main"] = "lid_config"
    /\ IF ConfigUsable(config_file)
       THEN /\ pc' = [pc EXCEPT !["main"] = "lid_probe"]
            /\ UNCHANGED process
       ELSE /\ pc' = [pc EXCEPT !["main"] = "exited"]
            /\ process' = "exit1"
    /\ UNCHANGED lid
    /\ LidFrame

\* power_state = get_power_status(config); reading the sensor may raise
LidProbe ==
    /\ process = "running"
    /\ pc["main"] = "lid_probe"
    /\ \E read \in {"ok", "error"} :
        IF read = "ok"
        THEN /\ lid' = [lid EXCEPT !.power_state = get_power_status(battery, config)]
             /\ pc' = [pc EXCEPT !["main"] = "lid_command"]
             /\ UNCHANGED process
        ELSE /\ LidRaise
             /\ UNCHANGED lid
    /\ LidFrame

\* command = get_lid_command(power_state, config)
LidGetCommand ==
    /\ process = "running"
    /\ pc["main"] = "lid_command"
    /\ LET got == get_lid_command(lid.power_state, config)
       IN IF got.raised
          THEN /\ LidRaise
               /\ UNCHANGED lid
          ELSE /\ lid' = [lid EXCEPT !.command = got.command]
               /\ pc' = [pc EXCEPT !["main"] = "lid_run"]
               /\ UNCHANGED process
    /\ LidFrame

\* if command: subprocess.run(command, shell=True, check=True), exit(1) on
\* CalledProcessError; else the "no command configured" line.  ran holds the
\* commands handed to subprocess.run.
LidRun ==
    /\ process = "running"
    /\ pc["main"] = "lid_run"
    /\ IF ~lid.command.none
       THEN /\ lid' = [lid EXCEPT !.ran = Append(@, lid.command.text)]
            /\ \E outcome \in {"ok", "nonzero", "oserror"} :
                 /\ pc' = [pc EXCEPT !["main"] =
                              CASE outcome = "ok" -> "lid_end"
                                [] outcome = "nonzero" -> "exited"
                                [] outcome = "oserror" -> "crashed"]
                 /\ process' = IF outcome = "ok" THEN "exit0" ELSE "exit1"
       ELSE /\ pc' = [pc EXCEPT !["main"] = "lid_end"]
            /\ process' = "exit0"
            /\ UNCHANGED lid
    /\ LidFrame

LidNext ==
    \/ LidLoadConfig
    \/ LidProbe
    \/ LidGetCommand
    \/ LidRun

LidSpec == LidInit /\ [][LidNext]_vars

\* the value of lid_switch.<state>_command for the probed state, "" when the
\* section or the key is absent
LidValue ==
    IF "lid_switch" \in DOMAIN config
       /\ CommandKey(lid.power_state) \in DOMAIN config["lid_switch"]
    THEN config["lid_switch"][CommandKey(lid.power_state)]
    ELSE <<>>

\* C23 as stated: having probed the power state the handler hands at most one
\* command to the shell, and by the time it has ended it has executed the
\* lid_switch.<state>_command of the probed state iff that value is non-empty
\* after trimming; with the key absent or empty it executes nothing and ends
\* with status 0.
C23_LidCommand ==
    process # "running" /\ lid.power_state # None =>
        /\ Len(lid.ran) <= 1
        /\ strip(LidValue) # <<>> <=> Len(lid.ran) = 1
        /\ strip(LidValue) = <<>> => process = "exit0"

\* the same for the values without a per-cent sign
LidCommandWithoutPercent ==
    /\ process # "running"
    /\ lid.power_state # None
    /\ \A i \in 1..Len(LidValue) : LidValue[i] # "%"
    => /\ Len(lid.ran) <= 1
       /\ strip(LidValue) # <<>> <=> lid.ran = <<LidValue>>
       /\ strip(LidValue) = <<>> => process = "exit0"

====
